---- MODULE Spec2Model ----
(***************************************************************************)
(* Model of FloodSeverityIndex.py: the per-year pipeline                   *)
(*   openDatasets -> calculateIndex -> writeNetcdf                         *)
(* run by the main loop `for y in year`.                                   *)
(*                                                                         *)
(* Floating point values are modelled as naturals plus the not-a-number    *)
(* value NaN; every comparison with NaN is false, as in IEEE 754 / numpy.  *)
(* An uncaught Python exception ends the run: pc = "failed".               *)
(***************************************************************************)
EXTENDS Integers, Sequences, FiniteSets, TLC

VARIABLES
    bounding_box,   \* sys.argv[3]: <<min_lon, max_lon, min_lat, max_lat>>
    year,           \* sys.argv[4]: the list of years
    present,        \* the years whose folder data/<year> holds *.nc files
    thres,          \* the thresholds dataset on disk (its lat / lon index)
    yi,             \* position of the main loop in `year` (1-based)
    pc,             \* "main", "calc", "loop", "write", "done", "failed"
    val, Q2, Q5, Q20, lat, lon, time,   \* the globals bound at line 151
    flood_bool,     \* the array calculateIndex builds
    k,              \* number of cells the triple loop has visited
    files,          \* the output directory: file name -> content
    written,        \* the file names in the order to_netcdf completed
    log,            \* the stages started, in order: <<stage, position in year>>
    failedStage     \* the stage whose exception ended the run, or "none"

vars == <<bounding_box, year, present, thres, yi, pc, val, Q2, Q5, Q20, lat,
          lon, time, flood_bool, k, files, written, log, failedStage>>

(***************************************************************************)
(* Bounds of the model.                                                    *)
(***************************************************************************)
MaxQ == 3          \* discharge and threshold values range over 0..MaxQ and NaN
MaxT == 2          \* longest time vector handed to calculateIndex directly
MaxYears == 3      \* longest list of years
MaxCoord == 3      \* bounding box entries range over 0..MaxCoord

(***************************************************************************)
(* Floating point values.                                                  *)
(***************************************************************************)
NaN == -1

Vals == (0..MaxQ) \cup {NaN}

isnan(a) == a = NaN

\* a >= b on floats: false when either side is NaN
\* (GeStrict: the variant with > for >=)
GeStrict(a, b) == ~isnan(a) /\ ~isnan(b) /\ a > b
Ge(a, b) == ~isnan(a) /\ ~isnan(b) /\ a >= b

\* a < b on floats: false when either side is NaN
\* (LtNoNanCheck: the variant that orders NaN like a number)
LtNoNanCheck(a, b) == a < b
Lt(a, b) == ~isnan(a) /\ ~isnan(b) /\ a < b

(***************************************************************************)
(* Sequence helpers.                                                       *)
(***************************************************************************)
MinOf(S) == CHOOSE x \in S : \A z \in S : x <= z

\* the elements of seq at the (contiguous) positions P, in order
Take(seq, P) == [j \in 1..Cardinality(P) |-> seq[MinOf(P) + j - 1]]

IsPrefix(s, t) == Len(s) <= Len(t) /\ \A i \in 1..Len(s) : s[i] = t[i]

(***************************************************************************)
(* The datasets on disk.  The discharge files of a year hold dis24 over    *)
(* (time, lat, lon) with a descending latitude index; the thresholds file  *)
(* holds Q_2, Q_5, Q_20 over (lat, lon) on its own grid.                   *)
(***************************************************************************)
YearSet == {2000, 2001}

DisLat == <<2, 1>>
DisLon == <<1, 2>>
DisTime == <<1, 2>>
Dis24 == << << <<1, 6>>, <<11, 25>> >>, << <<NaN, 3>>, <<7, 19>> >> >>

\* the grids a thresholds file may be on: the discharge grid, a wider one,
\* and one with fewer longitudes
ThresStores ==
    { [lat |-> <<2, 1>>, lon |-> <<1, 2>>],
      [lat |-> <<3, 2, 1>>, lon |-> <<1, 2, 3>>],
      [lat |-> <<2, 1>>, lon |-> <<1>>] }

\* the value of a field of the thresholds file at a coordinate
ThresField(name, la, lo) ==
    CASE name = "Q_2" -> 2
      [] name = "Q_5" -> 5
      [] name = "Q_20" -> 20

(***************************************************************************)
(* Label based slicing, Dataset.sel(dim=slice(start, stop)): both ends     *)
(* inclusive; on a descending index the labels between start and stop      *)
(* going down, on an ascending one going up.                               *)
(***************************************************************************)
Ascending(index) == \A i \in 1..Len(index) : \A j \in 1..Len(index) :
                        i < j => index[i] < index[j]

SelPositions(index, start, stop) ==
    IF Ascending(index)
    THEN {i \in 1..Len(index) : start <= index[i] /\ index[i] <= stop}
    ELSE {i \in 1..Len(index) : stop <= index[i] /\ index[i] <= start}

\* lat=slice(bounding_box[3], bounding_box[2])  (0-based in the source)
LatPositions(index, bb) == SelPositions(index, bb[4], bb[3])
\* lon=slice(bounding_box[0], bounding_box[1])
LonPositions(index, bb) == SelPositions(index, bb[1], bb[2])

\* p_ = data.sel(...): the clipped discharge dataset
ClipLat(bb) == Take(DisLat, LatPositions(DisLat, bb))
ClipLon(bb) == Take(DisLon, LonPositions(DisLon, bb))
ClipVal(bb) ==
    [t \in 1..Len(DisTime) |->
        Take([i \in 1..Len(DisLat) |->
                 Take(Dis24[t][i], LonPositions(DisLon, bb))],
             LatPositions(DisLat, bb))]

\* t_ = thres.sel(...): one clipped threshold field
ClipThres(store, bb, name) ==
    Take([i \in 1..Len(store.lat) |->
             Take([j \in 1..Len(store.lon) |->
                      ThresField(name, store.lat[i], store.lon[j])],
                  LonPositions(store.lon, bb))],
         LatPositions(store.lat, bb))

\* the spatial shape (lat, lon) of the clipped discharge grid and of the
\* clipped threshold fields
DisShape(bb) ==
    <<Cardinality(LatPositions(DisLat, bb)), Cardinality(LonPositions(DisLon, bb))>>
ThresShape(store, bb) ==
    <<Cardinality(LatPositions(store.lat, bb)),
      Cardinality(LonPositions(store.lon, bb))>>

(***************************************************************************)
(* calculateIndex, one cell.                                               *)
(***************************************************************************)
\* np.zeros(np.shape(val))  (ZerosOnes: the variant np.ones)
ZerosOnes(v) == [t \in 1..Len(v) |-> [i \in 1..Len(v[t]) |->
                    [j \in 1..Len(v[t][i]) |-> 1]]]
Zeros(v) == [t \in 1..Len(v) |-> [i \in 1..Len(v[t]) |->
                [j \in 1..Len(v[t][i]) |-> 0]]]

\* variants of the chain with one plausible slip each
\* (v > Q5 for v >= Q5; the levels 1 and 2 exchanged; the v < Q2 test first)
CellUpdateStrictQ5(old, v, q2, q5, q20) ==
    IF Ge(v, q20) THEN 3
    ELSE IF Lt(v, q2) THEN 0
    ELSE IF Ge(v, q2) /\ Lt(v, q5) THEN 1
    ELSE IF Lt(q5, v) /\ Lt(v, q20) THEN 2
    ELSE IF isnan(v) THEN NaN
    ELSE old
CellUpdateSwapped(old, v, q2, q5, q20) ==
    IF Ge(v, q20) THEN 3
    ELSE IF Lt(v, q2) THEN 0
    ELSE IF Ge(v, q2) /\ Lt(v, q5) THEN 2
    ELSE IF Ge(v, q5) /\ Lt(v, q20) THEN 1
    ELSE IF isnan(v) THEN NaN
    ELSE old
CellUpdateLowFirst(old, v, q2, q5, q20) ==
    IF Lt(v, q2) THEN 0
    ELSE IF Ge(v, q20) THEN 3
    ELSE IF Ge(v, q2) /\ Lt(v, q5) THEN 1
    ELSE IF Ge(v, q5) /\ Lt(v, q20) THEN 2
    ELSE IF isnan(v) THEN NaN
    ELSE old

\* the if / elif chain of lines 89-98: the value the cell holds afterwards,
\* given the value `old` it held before
CellUpdate(old, v, q2, q5, q20) ==
    IF Ge(v, q20) THEN 3
    ELSE IF Lt(v, q2) THEN 0
    ELSE IF Ge(v, q2) /\ Lt(v, q5) THEN 1
    ELSE IF Ge(v, q5) /\ Lt(v, q20) THEN 2
    ELSE IF isnan(v) THEN NaN
    ELSE old

\* the number of iterations of the triple loop over time, lat, lon
NCells == Len(time) * Len(lat) * Len(lon)

\* the indices <<idx_time, idx_lat, idx_lon>> (1-based) of iteration n (0-based)
CellAt(n) ==
    << (n \div (Len(lat) * Len(lon))) + 1,
       ((n \div Len(lon)) % Len(lat)) + 1,
       (n % Len(lon)) + 1 >>

\* Q20[idx_lat, idx_lon] and the other subscripts of line 89 are in range
InRange(c) ==
    /\ c[2] <= Len(Q20) /\ c[3] <= Len(Q20[c[2]])
    /\ c[1] <= Len(val) /\ c[2] <= Len(val[c[1]]) /\ c[3] <= Len(val[c[1]][c[2]])

(***************************************************************************)
(* writeNetcdf helpers.                                                    *)
(***************************************************************************)
\* 'GloFAS_FloodIndex_' + str(year) + '.nc'
\* (FilenameNoYear: the variant that leaves the year out)
FilenameNoYear(y) == <<"GloFAS_FloodIndex_", ".nc">>
Filename(y) == <<"GloFAS_FloodIndex_", y, ".nc">>

\* np.min / np.max of lat and lon (lines 132-135) and ds.time.values[0] /
\* [-1] (lines 136-137) are defined: none of the three vectors is empty
\* (ExtentAlwaysDefined: the variant in which the reductions never raise)
ExtentAlwaysDefined(la, lo, ti) == TRUE
ExtentDefined(la, lo, ti) == Len(la) > 0 /\ Len(lo) > 0 /\ Len(ti) > 0

\* the directory after ds.to_netcdf(name): the file is created or replaced
PutFile(dir, name, content) ==
    [n \in (DOMAIN dir) \cup {name} |-> IF n = name THEN content ELSE dir[n]]

\* an uncaught exception in `stage`: the interpreter exits
Raise(stage) ==
    /\ pc' = "failed"
    /\ failedStage' = stage

(***************************************************************************)
(* The initial state: the command line and the disk.                       *)
(***************************************************************************)
YearLists == UNION {[1..n -> YearSet] : n \in 0..MaxYears}

BoundingBoxes == [1..4 -> 0..MaxCoord]

Init ==
    /\ bounding_box \in BoundingBoxes
    /\ year \in YearLists
    /\ present \in SUBSET YearSet
    /\ thres \in ThresStores
    /\ yi = 1
    /\ pc = "main"
    /\ val = <<>> /\ Q2 = <<>> /\ Q5 = <<>> /\ Q20 = <<>>
    /\ lat = <<>> /\ lon = <<>> /\ time = <<>>
    /\ flood_bool = <<>>
    /\ k = 0
    /\ files = <<>>
    /\ written = <<>>
    /\ log = <<>>
    /\ failedStage = "none"

input == <<bounding_box, year, present, thres>>
data == <<val, Q2, Q5, Q20, lat, lon, time>>

(***************************************************************************)
(* openDatasets(data, thresholds, y, bounding_box), line 151.              *)
(***************************************************************************)
openDatasets ==
    /\ pc = "main" /\ yi <= Len(year)
    /\ year[yi] \in present
    /\ val' = ClipVal(bounding_box)
    /\ Q5' = ClipThres(thres, bounding_box, "Q_5")
    /\ Q2' = ClipThres(thres, bounding_box, "Q_2")
    /\ Q20' = ClipThres(thres, bounding_box, "Q_20")
    /\ lat' = ClipLat(bounding_box)
    /\ lon' = ClipLon(bounding_box)
    /\ time' = DisTime
    /\ log' = Append(log, <<"load", yi>>)
    /\ pc' = "calc"
    /\ UNCHANGED <<input, yi, flood_bool, k, files, written, failedStage>>

\* xr.open_mfdataset raises on an empty list of files (line 45)
\* (openDatasetsContinue: the variant in which the main loop catches the
\* error and goes on with the next year)
openDatasetsContinue ==
    /\ pc = "main" /\ yi <= Len(year)
    /\ year[yi] \notin present
    /\ log' = Append(log, <<"load", yi>>)
    /\ failedStage' = "load"
    /\ yi' = yi + 1
    /\ UNCHANGED <<input, data, pc, flood_bool, k, files, written>>
openDatasetsRaises ==
    /\ pc = "main" /\ yi <= Len(year)
    /\ year[yi] \notin present
    /\ log' = Append(log, <<"load", yi>>)
    /\ Raise("load")
    /\ UNCHANGED <<input, data, yi, flood_bool, k, files, written>>

(***************************************************************************)
(* calculateIndex(val, Q2, Q5, Q20, lat, lon, time), line 152.             *)
(***************************************************************************)
\* line 84
calcZeros ==
    /\ pc = "calc"
    /\ flood_bool' = Zeros(val)
    /\ k' = 0
    /\ log' = Append(log, <<"classify", yi>>)
    /\ pc' = "loop"
    /\ UNCHANGED <<input, data, yi, files, written, failedStage>>

\* one iteration of the loops of lines 86-98
calcCell ==
    /\ pc = "loop" /\ k < NCells
    /\ InRange(CellAt(k))
    /\ LET c == CellAt(k) IN
         flood_bool' = [flood_bool EXCEPT ![c[1]][c[2]][c[3]] =
                           CellUpdate(@, val[c[1]][c[2]][c[3]], Q2[c[2]][c[3]],
                                      Q5[c[2]][c[3]], Q20[c[2]][c[3]])]
    /\ k' = k + 1
    /\ UNCHANGED <<input, data, yi, pc, files, written, log, failedStage>>

\* a subscript of line 89 is out of range: IndexError
calcCellRaises ==
    /\ pc = "loop" /\ k < NCells
    /\ ~InRange(CellAt(k))
    /\ Raise("classify")
    /\ UNCHANGED <<input, data, yi, flood_bool, k, files, written, log>>

\* line 100
calcReturn ==
    /\ pc = "loop" /\ k = NCells
    /\ pc' = "write"
    /\ UNCHANGED <<input, data, yi, flood_bool, k, files, written, log, failedStage>>

(***************************************************************************)
(* writeNetcdf(flood_bool, lat, lon, time, y), line 153, and the next      *)
(* iteration of the main loop.                                             *)
(***************************************************************************)
writeNetcdf ==
    /\ pc = "write"
    /\ ExtentDefined(lat, lon, time)
    /\ files' = PutFile(files, Filename(year[yi]),
                        [flood |-> flood_bool, lat |-> lat, lon |-> lon,
                         time |-> time])
    /\ written' = Append(written, Filename(year[yi]))
    /\ log' = Append(log, <<"write", yi>>)
    /\ yi' = yi + 1
    /\ pc' = "main"
    /\ UNCHANGED <<input, data, flood_bool, k, failedStage>>

\* np.min / np.max of an empty vector raises ValueError (lines 132-135),
\* ds.time.values[0] of an empty one IndexError (line 136)
writeNetcdfRaises ==
    /\ pc = "write"
    /\ ~ExtentDefined(lat, lon, time)
    /\ log' = Append(log, <<"write", yi>>)
    /\ Raise("write")
    /\ UNCHANGED <<input, data, yi, flood_bool, k, files, written>>

\* ds.to_netcdf cannot create the file (unwritable directory): OSError
toNetcdfRaises ==
    /\ pc = "write"
    /\ ExtentDefined(lat, lon, time)
    /\ log' = Append(log, <<"write", yi>>)
    /\ Raise("write")
    /\ UNCHANGED <<input, data, yi, flood_bool, k, files, written>>

\* `for y in year` is exhausted: the script ends
mainExit ==
    /\ pc = "main" /\ yi > Len(year)
    /\ pc' = "done"
    /\ UNCHANGED <<input, data, yi, flood_bool, k, files, written, log, failedStage>>

Next ==
    \/ openDatasets
    \/ openDatasetsRaises
    \/ calcZeros
    \/ calcCell
    \/ calcCellRaises
    \/ calcReturn
    \/ writeNetcdf
    \/ writeNetcdfRaises
    \/ toNetcdfRaises
    \/ mainExit

Spec == Init /\ [][Next]_vars

(***************************************************************************)
(* calculateIndex on its own: called with a discharge grid over one        *)
(* spatial cell and up to MaxT time steps, every value and every threshold *)
(* ranging over Vals, or with the 2 x 2 x 2 grid Dis24 and the constant    *)
(* thresholds 2, 5, 20.                                                    *)
(***************************************************************************)
Const2x2(c) == << <<c, c>>, <<c, c>> >>

InitIndex ==
    /\ bounding_box = [i \in 1..4 |-> 0]
    /\ year = <<>>
    /\ present = {}
    /\ thres = [lat |-> DisLat, lon |-> DisLon]
    /\ yi = 1
    /\ pc = "calc"
    /\ \/ /\ time \in UNION {[1..n -> {0}] : n \in 0..MaxT}
          /\ lat = <<1>> /\ lon = <<1>>
          /\ val \in [1..Len(time) -> [1..1 -> [1..1 -> Vals]]]
          /\ Q2 \in [1..1 -> [1..1 -> Vals]]
          /\ Q5 \in [1..1 -> [1..1 -> Vals]]
          /\ Q20 \in [1..1 -> [1..1 -> Vals]]
       \/ /\ time = DisTime /\ lat = DisLat /\ lon = DisLon
          /\ val = Dis24
          /\ Q2 = Const2x2(2) /\ Q5 = Const2x2(5) /\ Q20 = Const2x2(20)
    /\ flood_bool = <<>>
    /\ k = 0
    /\ files = <<>>
    /\ written = <<>>
    /\ log = <<>>
    /\ failedStage = "none"

NextIndex ==
    \/ calcZeros
    \/ calcCell
    \/ calcReturn

SpecIndex == InitIndex /\ [][NextIndex]_vars

(***************************************************************************)
(* Properties of calculateIndex (checked under SpecIndex).                 *)
(***************************************************************************)
\* calculateIndex has returned flood_bool
Returned == pc = "write"

Cells == {c \in (1..Len(val)) \X (1..Len(lat)) \X (1..Len(lon)) : TRUE}

V(c) == val[c[1]][c[2]][c[3]]
F(c) == flood_bool[c[1]][c[2]][c[3]]
T2(c) == Q2[c[2]][c[3]]
T5(c) == Q5[c[2]][c[3]]
T20(c) == Q20[c[2]][c[3]]

Missing(x) == x = NaN
Ordered(c) == /\ ~Missing(T2(c)) /\ ~Missing(T5(c)) /\ ~Missing(T20(c))
              /\ T2(c) <= T5(c) /\ T5(c) <= T20(c)

\* the table of levels at cell c
PolicyTable(c) ==
    /\ F(c) \in 0..3
    /\ (F(c) = 3) <=> (V(c) >= T20(c))
    /\ (F(c) = 0) <=> (V(c) < T2(c))
    /\ (F(c) = 1) <=> (T2(c) <= V(c) /\ V(c) < T5(c))
    /\ (F(c) = 2) <=> (T5(c) <= V(c) /\ V(c) < T20(c))

ExampleInput ==
    /\ val = Dis24
    /\ Q2 = Const2x2(2) /\ Q5 = Const2x2(5) /\ Q20 = Const2x2(20)

\* C1 as stated: once calculateIndex has returned, every cell with a
\* non-missing discharge value and thresholds Q2 <= Q5 <= Q20 holds the level
\* of the table (3 when v >= Q20, 0 when v < Q2, 1 when Q2 <= v < Q5, 2 when
\* Q5 <= v < Q20), and the grid [[[1,6],[11,25]],[[NaN,3],[7,19]]] with
\* thresholds 2, 5, 20 gives [[[0,1],[2,3]],[[NaN,0],[1,2]]].
C1_Original ==
    Returned =>
        /\ \A c \in Cells : (~Missing(V(c)) /\ Ordered(c)) => PolicyTable(c)
        /\ ExampleInput =>
              flood_bool = << << <<0, 1>>, <<2, 3>> >>, << <<NaN, 0>>, <<1, 2>> >> >>

\* C1 (amended): the same table, exactly one level of 0..3 per cell, and the
\* grid [[[1,6],[11,25]],[[NaN,3],[7,19]]] with thresholds 2, 5, 20 gives
\* [[[0,2],[2,3]],[[NaN,1],[2,2]]].
C1_PolicyTable ==
    Returned =>
        /\ \A c \in Cells : (~Missing(V(c)) /\ Ordered(c)) => PolicyTable(c)
        /\ ExampleInput =>
              flood_bool = << << <<0, 2>>, <<2, 3>> >>, << <<NaN, 1>>, <<2, 2>> >> >>

C1_Witness ==
    /\ Returned
    /\ ExampleInput
    /\ flood_bool = << << <<0, 2>>, <<2, 3>> >>, << <<NaN, 1>>, <<2, 2>> >> >>

\* C2 as stated: with Q2 <= Q5 <= Q20, a value equal to Q2 gets 1, a value
\* equal to Q5 gets 2 and a value equal to Q20 gets 3.
C2_Original ==
    Returned =>
        \A c \in Cells : Ordered(c) =>
            /\ (V(c) = T2(c)) => F(c) = 1
            /\ (V(c) = T5(c)) => F(c) = 2
            /\ (V(c) = T20(c)) => F(c) = 3

\* C2 (amended): with Q2 <= Q5 <= Q20, a value equal to Q20 gets 3, a value
\* equal to Q5 gets 2 when Q5 < Q20, and a value equal to Q2 gets 1 when
\* Q2 < Q5; a value equal to several coinciding thresholds gets the level of
\* the highest of them.
C2_BoundaryExactness ==
    Returned =>
        \A c \in Cells : Ordered(c) =>
            /\ (V(c) = T20(c)) => F(c) = 3
            /\ (V(c) = T5(c) /\ T5(c) < T20(c)) => F(c) = 2
            /\ (V(c) = T2(c) /\ T2(c) < T5(c)) => F(c) = 1
            /\ (V(c) = T2(c) /\ T2(c) = T5(c) /\ T5(c) < T20(c)) => F(c) = 2

C2_Witness ==
    /\ Returned
    /\ \E c \in Cells : Ordered(c) /\ V(c) = T2(c) /\ T2(c) < T5(c) /\ F(c) = 1
    /\ \E c \in Cells : Ordered(c) /\ V(c) = T5(c) /\ T5(c) = T20(c) /\ F(c) = 3

\* C3: once calculateIndex has returned, for thresholds Q2 <= Q5 <= Q20 at
\* a cell and two non-missing values v1 <= v2 there (at two time steps),
\* the level of v1 is at most the level of v2.
C3_Monotone ==
    Returned =>
        \A c \in Cells : \A d \in Cells :
            (c[2] = d[2] /\ c[3] = d[3] /\ Ordered(c)
                /\ ~Missing(V(c)) /\ ~Missing(V(d)) /\ V(c) <= V(d))
            => F(c) <= F(d)

C3_Witness ==
    /\ Returned
    /\ \E c \in Cells : \E d \in Cells :
          /\ c[2] = d[2] /\ c[3] = d[3] /\ Ordered(c)
          /\ ~Missing(V(c)) /\ ~Missing(V(d)) /\ V(c) < V(d)
          /\ F(c) = 1 /\ F(d) = 2

\* C4: once calculateIndex has returned, every cell whose discharge value
\* is missing holds NaN, whatever Q2, Q5 and Q20 are there.
C4_NaNPropagates ==
    Returned => \A c \in Cells : Missing(V(c)) => F(c) = NaN

C4_Witness ==
    /\ Returned
    /\ \E c \in Cells : /\ Missing(V(c)) /\ F(c) = NaN
                        /\ ~Missing(T2(c)) /\ ~Missing(T20(c)) /\ T20(c) < T2(c)
    /\ \E c \in Cells : Missing(V(c)) /\ F(c) = NaN /\ Missing(T5(c))

\* C9: once calculateIndex has returned, every cell with a non-missing
\* value and non-missing thresholds in any order holds the level of the
\* first check that matches, in the order v >= Q20 (3), v < Q2 (0),
\* Q2 <= v < Q5 (1), Q5 <= v < Q20 (2); one of them matches.
C9_FirstMatchWins ==
    Returned =>
        \A c \in Cells :
            (~Missing(V(c)) /\ ~Missing(T2(c)) /\ ~Missing(T5(c)) /\ ~Missing(T20(c))) =>
            LET m3 == V(c) >= T20(c)
                m0 == V(c) < T2(c)
                m1 == T2(c) <= V(c) /\ V(c) < T5(c)
                m2 == T5(c) <= V(c) /\ V(c) < T20(c)
            IN  /\ m3 \/ m0 \/ m1 \/ m2
                /\ F(c) \in 0..3
                /\ m3 => F(c) = 3
                /\ (~m3 /\ m0) => F(c) = 0
                /\ (~m3 /\ ~m0 /\ m1) => F(c) = 1
                /\ (~m3 /\ ~m0 /\ ~m1 /\ m2) => F(c) = 2

C9_Witness ==
    /\ Returned
    /\ \E c \in Cells : /\ ~Missing(V(c)) /\ ~Missing(T2(c)) /\ ~Missing(T5(c))
                        /\ ~Missing(T20(c))
                        /\ V(c) >= T20(c) /\ V(c) < T2(c) /\ F(c) = 3

\* C10: on thresholds of the shape of the grid, missing or not, no
\* iteration of calculateIndex raises, and once it has returned a cell holds
\* NaN if and only if its discharge value is missing; a cell with a
\* non-missing value holds a level of 0..3, and 0 when no comparison of the
\* chain is true (a missing threshold makes it false).
C10_MissingIffMissing ==
    /\ failedStage = "none"
    /\ (pc = "loop" /\ k < NCells) => InRange(CellAt(k))
    /\ Returned =>
        \A c \in Cells :
            LET ge(a, b) == ~Missing(a) /\ ~Missing(b) /\ a >= b
                lt(a, b) == ~Missing(a) /\ ~Missing(b) /\ a < b
                none == /\ ~ge(V(c), T20(c)) /\ ~lt(V(c), T2(c))
                        /\ ~(ge(V(c), T2(c)) /\ lt(V(c), T5(c)))
                        /\ ~(ge(V(c), T5(c)) /\ lt(V(c), T20(c)))
            IN  /\ Missing(F(c)) <=> Missing(V(c))
                /\ ~Missing(V(c)) => F(c) \in 0..3
                /\ (~Missing(V(c)) /\ none) => F(c) = 0

C10_Witness ==
    /\ Returned
    /\ \E c \in Cells : /\ ~Missing(V(c)) /\ Missing(T20(c)) /\ Missing(T5(c))
                        /\ ~Missing(T2(c)) /\ V(c) >= T2(c) /\ F(c) = 0

(***************************************************************************)
(* Properties of the whole run (checked under Spec).                       *)
(***************************************************************************)
\* the grids differ in spatial shape after clipping to the bounding box
Misaligned == DisShape(bounding_box) # ThresShape(thres, bounding_box)

\* the bounding box selects no latitude or no longitude of the discharge grid
EmptyClip == Len(ClipLat(bounding_box)) = 0 \/ Len(ClipLon(bounding_box)) = 0

Started(stage) == \E i \in 1..Len(log) : log[i][1] = stage

\* C5: when the clipped discharge grid (not empty) and the clipped
\* threshold grids differ in spatial shape, the run fails in the loading
\* stage: classification never starts, no stage other than load raises and
\* no artifact is written.
C5_MisalignedFailsInLoad ==
    (Misaligned /\ ~EmptyClip) =>
        /\ ~Started("classify")
        /\ failedStage \in {"none", "load"}
        /\ files = <<>>

\* C6 as stated: when the clipped latitude or longitude vector is empty, the
\* run ends in an error raised by the loader (no later stage starts) and no
\* artifact is written.
C6_Original ==
    EmptyClip =>
        /\ ~Started("classify") /\ ~Started("write")
        /\ failedStage \in {"none", "load"}
        /\ files = <<>>

\* C6 (amended): when the clipped latitude or longitude vector is empty, the
\* first year of the list ends the run with an error and no artifact is ever
\* written: the loader raises only when the year has no files; otherwise it
\* returns the empty grid, calculateIndex visits no cell and returns, and
\* writeNetcdf raises before ds.to_netcdf.
C6_EmptyClipFailsInWrite ==
    EmptyClip =>
        /\ files = <<>> /\ written = <<>>
        /\ yi = 1
        /\ pc = "done" => year = <<>>
        /\ failedStage \in {"none", "load", "write"}
        /\ failedStage = "load" => year[yi] \notin present
        /\ failedStage = "write" => (year[yi] \in present /\ k = 0)
        /\ pc \in {"loop", "write"} => (k = 0 /\ NCells = 0)

C6_Witness ==
    /\ EmptyClip
    /\ pc = "failed" /\ failedStage = "write"
    /\ Started("classify")
    /\ files = <<>>

\* the stages of the first n years, in order
ExpectedLog(n) ==
    [i \in 1..(3 * n) |->
        << CASE (i - 1) % 3 = 0 -> "load"
             [] (i - 1) % 3 = 1 -> "classify"
             [] OTHER -> "write",
           ((i - 1) \div 3) + 1 >>]

\* the artifact names of the first n years of the list, in order
ExpectedNames(n) == [i \in 1..n |-> <<"GloFAS_FloodIndex_", year[i], ".nc">>]

Range(f) == {f[i] : i \in DOMAIN f}

\* C7: the stages start in the order load, classify, write of the first
\* year, then of the second, and so on; the load of a year starts only after
\* the artifact of the year before it is written, and the write only after
\* every cell is classified; without a failure the artifacts written so far
\* are those of the years processed, in order, and once the run ends there
\* is exactly one artifact per year of the list, named from the year.
C7_Sequential ==
    /\ IsPrefix(log, ExpectedLog(Len(year)))
    /\ \A i \in 1..Len(log) : log[i][1] = "load" => Len(written) >= log[i][2] - 1
    /\ pc = "write" => k = NCells
    /\ failedStage = "none" =>
          /\ written = ExpectedNames(Len(written))
          /\ DOMAIN files = Range(written)
    /\ (pc = "done" /\ failedStage = "none") =>
          /\ written = ExpectedNames(Len(year))
          /\ Cardinality(DOMAIN files) = Cardinality(Range(year))

C7_Witness ==
    /\ pc = "done" /\ failedStage = "none"
    /\ Len(year) = 2 /\ year[1] # year[2]
    /\ Cardinality(DOMAIN files) = 2
    /\ Len(log) = 6

\* C8: once a stage has failed for the year at position yi, the run has
\* terminated: no stage of a later year has started, and the artifacts
\* written are exactly those of the years before position yi.
C8_AbortOnFirstFailure ==
    failedStage # "none" =>
        /\ pc = "failed"
        /\ yi <= Len(year)
        /\ \A i \in 1..Len(log) : log[i][2] <= yi
        /\ log[Len(log)][1] = failedStage \/ failedStage = "classify"
        /\ written = ExpectedNames(yi - 1)
        /\ DOMAIN files = Range(written)

C8_Witness ==
    /\ pc = "failed" /\ failedStage # "none"
    /\ Len(year) = 3 /\ yi = 2
    /\ Cardinality(DOMAIN files) = 1

====
